---- MODULE Spec2Model ----
(***************************************************************************)
(* A model of anchorcomply_prototype.py: the column normaliser             *)
(* (norm_col, fuzzy_match, show_map_ui), the coercions (to_num,            *)
(* parse_date_series, materialize) and the "Run Audit" handler (mismatch,  *)
(* duplicates, delayed filings, summary, report inputs).                   *)
(*                                                                         *)
(* Representation.  A Python str whose characters are read (a cell, a      *)
(* label handed to norm_col) is a sequence of one-character strings; a     *)
(* column label of a DataFrame, of which only the identity matters, is a   *)
(* string.  A DataFrame is [columns |-> sequence of labels, rows |-> sequence of    *)
(* rows], a row being a sequence of cells aligned with columns.  A cell is *)
(* a record [t, v]: t = "str" (v the characters), "num" (v the amount in   *)
(* hundredths of a currency unit, so 1.00 is 100), "inf" (v the sign),     *)
(* "date" (v = <<year, month, day>>) or "nan" (NaN / NaT / NA / None).     *)
(* An optional value is <<>> (None) or <<x>>.                              *)
(***************************************************************************)
EXTENDS Integers, Sequences, FiniteSets, TLC

VARIABLES
    sales_df,          \* materialize(sales_df_raw, sales_map), optional
    gstr1_df,          \* materialize(gstr1_df_raw, gstr1_map), optional
    gstr3b_df,         \* materialize(gstr3b_df_raw, gstr3b_map), optional
    late_fee_per_day,  \* st.number_input("Late fee per day", value=50)
    audit,             \* what the last script run showed
    df_raw,            \* a table as read_any returned it, optional
    mapping,           \* the selections of the mapping UI for df_raw
    materialized,      \* the outcome of materialize(df_raw, mapping)
    cols,              \* list(df.columns) handed to show_map_ui
    auto               \* the suggestion show_map_ui computed per field

vars == <<sales_df, gstr1_df, gstr3b_df, late_fee_per_day, audit,
          df_raw, mapping, materialized, cols, auto>>

auditVars == <<sales_df, gstr1_df, gstr3b_df, late_fee_per_day, audit>>
matVars == <<df_raw, mapping, materialized>>
uiVars == <<cols, auto>>

----------------------------------------------------------------------------
(* Optional values and cells *)

None == <<>>
Some(x) == <<x>>
IsNone(o) == o = <<>>
Val(o) == o[1]

NaN == [t |-> "nan", v |-> 0]
Num(n) == [t |-> "num", v |-> n]
Inf(sign) == [t |-> "inf", v |-> sign]
Str(s) == [t |-> "str", v |-> s]
Date(y, m, d) == [t |-> "date", v |-> <<y, m, d>>]

\* pd.isna(x): NaN, NaT, pd.NA and None are all the cell NaN
isna(x) == x.t = "nan"

Range(s) == {s[i] : i \in 1..Len(s)}

----------------------------------------------------------------------------
(* Characters *)

Digits == <<"0", "1", "2", "3", "4", "5", "6", "7", "8", "9">>
Lowers == <<"a", "b", "c", "d", "e", "f", "g", "h", "i", "j", "k", "l", "m",
            "n", "o", "p", "q", "r", "s", "t", "u", "v", "w", "x", "y", "z">>
Uppers == <<"A", "B", "C", "D", "E", "F", "G", "H", "I", "J", "K", "L", "M",
            "N", "O", "P", "Q", "R", "S", "T", "U", "V", "W", "X", "Y", "Z">>

IsDigit(c) == c \in Range(Digits)
DigitVal(c) == (CHOOSE i \in 1..10 : Digits[i] = c) - 1

\* str.lower() on one character
lower(c) ==
    IF c \in Range(Uppers)
    THEN Lowers[CHOOSE i \in 1..26 : Uppers[i] = c]
    ELSE c

\* the code point order of the characters norm_col keeps: digits, then letters
AlnumOrder == Digits \o Lowers
Ord(c) == CHOOSE i \in 1..36 : AlnumOrder[i] = c

RECURSIVE DecVal(_)
DecVal(s) ==
    IF s = <<>> THEN 0
    ELSE 10 * DecVal(SubSeq(s, 1, Len(s) - 1)) + DigitVal(s[Len(s)])

AllDigits(s) == \A i \in 1..Len(s) : IsDigit(s[i])

----------------------------------------------------------------------------
(* str operations used by to_num *)

\* s.replace(old, new) for a one-character old and a new of any length
RECURSIVE replace(_, _, _)
replace(s, old, new) ==
    IF s = <<>> THEN <<>>
    ELSE (IF Head(s) = old THEN new ELSE <<Head(s)>>) \o replace(Tail(s), old, new)

IsSpace(c) == c = " "

RECURSIVE lstrip(_)
lstrip(s) ==
    IF s # <<>> /\ IsSpace(Head(s)) THEN lstrip(Tail(s)) ELSE s

RECURSIVE rstrip(_)
rstrip(s) ==
    IF s # <<>> /\ IsSpace(s[Len(s)]) THEN rstrip(SubSeq(s, 1, Len(s) - 1)) ELSE s

strip(s) == lstrip(rstrip(s))

lowerStr(s) == [i \in 1..Len(s) |-> lower(s[i])]

\* The place of the first "." of s, or 0
DotAt(s) ==
    IF \E i \in 1..Len(s) : s[i] = "."
    THEN CHOOSE i \in 1..Len(s) : s[i] = "." /\ \A j \in 1..(i - 1) : s[j] # "."
    ELSE 0

ValueError == [t |-> "ValueError", v |-> 0]

\* float(s) on an unsigned body: digits with at most one "." (two decimals
\* at most are representable in hundredths), or inf / infinity / nan
UnsignedFloat(body, sign) ==
    LET low == lowerStr(body)
        dot == DotAt(body)
        ip == IF dot = 0 THEN body ELSE SubSeq(body, 1, dot - 1)
        fp == IF dot = 0 THEN <<>> ELSE SubSeq(body, dot + 1, Len(body))
    IN  IF low = <<"i", "n", "f">> \/ low = <<"i", "n", "f", "i", "n", "i", "t", "y">>
        THEN Inf(sign)
        ELSE IF low = <<"n", "a", "n">>
        THEN NaN
        ELSE IF /\ AllDigits(ip) /\ AllDigits(fp)
                /\ Len(ip) + Len(fp) > 0
                /\ Len(fp) <= 2
        THEN Num(sign * (100 * DecVal(ip)
                         + (IF Len(fp) = 1 THEN 10 * DecVal(fp) ELSE DecVal(fp))))
        ELSE ValueError

\* float(s): an optional sign, then the body
float(s) ==
    IF s = <<>> THEN ValueError
    ELSE IF Head(s) = "-" THEN UnsignedFloat(Tail(s), -1)
    ELSE IF Head(s) = "+" THEN UnsignedFloat(Tail(s), 1)
    ELSE UnsignedFloat(s, 1)

to_num(s) ==
    IF isna(s) THEN Num(0)
    ELSE IF s.t \in {"num", "inf"} THEN s
    ELSE IF s.t # "str" THEN Num(0)      \* str(a date) is no float: except
    ELSE LET c == strip(replace(replace(replace(s.v, ",", <<>>), "(", <<"-">>), ")", <<>>))
             f == IF c # <<>> THEN float(c) ELSE Num(0)
         IN  IF f = ValueError THEN Num(0) ELSE f


----------------------------------------------------------------------------
(* datetime.date: the proleptic Gregorian calendar *)

IsLeap(y) == y % 4 = 0 /\ (y % 100 # 0 \/ y % 400 = 0)

DaysInMonth(y, m) ==
    IF m = 2 THEN (IF IsLeap(y) THEN 29 ELSE 28)
    ELSE IF m \in {4, 6, 9, 11} THEN 30 ELSE 31

DaysBeforeYear(y) ==
    LET p == y - 1 IN 365 * p + (p \div 4) - (p \div 100) + (p \div 400)

RECURSIVE DaysBeforeMonth(_, _)
DaysBeforeMonth(y, m) ==
    IF m = 1 THEN 0 ELSE DaysBeforeMonth(y, m - 1) + DaysInMonth(y, m - 1)

\* date.toordinal(); (a - b).days is toordinal(a) - toordinal(b)
toordinal(d) == DaysBeforeYear(d[1]) + DaysBeforeMonth(d[1], d[2]) + d[3]

\* The pieces of s between its "-" characters
RECURSIVE split(_, _)
split(s, cur) ==
    IF s = <<>> THEN <<cur>>
    ELSE IF Head(s) = "-" THEN <<cur>> \o split(Tail(s), <<>>)
    ELSE split(Tail(s), Append(cur, Head(s)))

\* %m is 1[0-2]|0[1-9]|[1-9] and %d is 3[01]|[12]\d|0[1-9]|[1-9]| [1-9]
IsMonthField(p) ==
    \/ Len(p) = 2 /\ AllDigits(p) /\ DecVal(p) \in 1..12
    \/ Len(p) = 1 /\ AllDigits(p) /\ DecVal(p) \in 1..9

IsDayField(p) ==
    \/ Len(p) = 2 /\ AllDigits(p) /\ DecVal(p) \in 1..31
    \/ Len(p) = 1 /\ AllDigits(p) /\ DecVal(p) \in 1..9
    \/ Len(p) = 2 /\ p[1] = " " /\ IsDigit(p[2]) /\ DecVal(<<p[2]>>) \in 1..9

\* datetime.strptime(s, "%Y-%m-%d").date(): <<date>>, or <<>> for ValueError
strptime(s) ==
    LET parts == split(s, <<>>) IN
    IF /\ Len(parts) = 3
       /\ Len(parts[1]) = 4 /\ AllDigits(parts[1])
       /\ IsMonthField(parts[2])
       /\ IsDayField(parts[3])
    THEN LET y == DecVal(parts[1])
             m == DecVal(parts[2])
             d == DecVal(lstrip(parts[3]))
         IN  IF y >= 1 /\ d <= DaysInMonth(y, m) THEN Some(<<y, m, d>>) ELSE None
    ELSE None

----------------------------------------------------------------------------
(* DataFrame access *)

EmptyFrame == [columns |-> <<>>, rows |-> <<>>]      \* pd.DataFrame()

HasCol(df, c) == c \in Range(df.columns)
ColIndex(df, c) == CHOOSE i \in 1..Len(df.columns) : df.columns[i] = c
Cell(df, r, c) == df.rows[r][ColIndex(df, c)]

\* row.get(c, None)
RowGet(df, r, c) == IF HasCol(df, c) THEN Cell(df, r, c) ELSE NaN

\* DataFrame.empty: an axis of length 0
IsEmptyFrame(df) == Len(df.columns) = 0 \/ Len(df.rows) = 0

Indices(df) == [i \in 1..Len(df.rows) |-> i]


----------------------------------------------------------------------------
(* Helper functions: norm_col, fuzzy_match (difflib.get_close_matches) *)

IsAlnum(c) == c \in Range(AlnumOrder)

\* re.sub(r'[^a-z0-9]', '', c.lower())
norm_col(c) == SelectSeq(lowerStr(c), IsAlnum)

\* The length of the common run of a from i and b from j, inside a[..ahi), b[..bhi)
RECURSIVE RunLen(_, _, _, _, _, _)
RunLen(a, b, i, j, ahi, bhi) ==
    IF i < ahi /\ j < bhi /\ a[i] = b[j]
    THEN 1 + RunLen(a, b, i + 1, j + 1, ahi, bhi)
    ELSE 0

Max(S) == CHOOSE x \in S : \A y \in S : y <= x
Min(S) == CHOOSE x \in S : \A y \in S : x <= y

\* SequenceMatcher.find_longest_match(alo, ahi, blo, bhi) without junk: the
\* longest block, of those the one earliest in a, of those the one earliest
\* in b; <<i, j, k>> with k = 0 when nothing matches
find_longest_match(a, b, alo, ahi, blo, bhi) ==
    LET starts == (alo..(ahi - 1)) \X (blo..(bhi - 1))
        best == Max({0} \cup {RunLen(a, b, p[1], p[2], ahi, bhi) : p \in starts})
    IN  IF best = 0 THEN <<alo, blo, 0>>
        ELSE LET i == Min({p[1] : p \in {q \in starts :
                                   RunLen(a, b, q[1], q[2], ahi, bhi) = best}})
                 j == Min({p[2] : p \in {q \in starts :
                                   q[1] = i /\ RunLen(a, b, q[1], q[2], ahi, bhi) = best}})
             IN  <<i, j, best>>

\* The sum of the sizes of get_matching_blocks() inside the two ranges
RECURSIVE matches(_, _, _, _, _, _)
matches(a, b, alo, ahi, blo, bhi) ==
    IF alo >= ahi \/ blo >= bhi THEN 0
    ELSE LET m == find_longest_match(a, b, alo, ahi, blo, bhi)
         IN  IF m[3] = 0 THEN 0
             ELSE m[3] + matches(a, b, alo, m[1], blo, m[2])
                       + matches(a, b, m[1] + m[3], ahi, m[2] + m[3], bhi)

\* SequenceMatcher(None, a, b).ratio() = 2.0 * M / T, kept as <<2 * M, T>>;
\* 1.0 when both are empty
ratio(a, b) ==
    IF Len(a) + Len(b) = 0 THEN <<1, 1>>
    ELSE <<2 * matches(a, b, 1, Len(a) + 1, 1, Len(b) + 1), Len(a) + Len(b)>>

CutoffNum == 6        \* cutoff=0.6 as CutoffNum / CutoffDen
CutoffDen == 10

AtLeastCutoff(r) == r[1] * CutoffDen >= CutoffNum * r[2]

RatioLess(r, q) == r[1] * q[2] < q[1] * r[2]

\* x < y for str
RECURSIVE StrLess(_, _)
StrLess(x, y) ==
    IF y = <<>> THEN FALSE
    ELSE IF x = <<>> THEN TRUE
    ELSE IF Head(x) # Head(y) THEN Ord(Head(x)) < Ord(Head(y))
    ELSE StrLess(Tail(x), Tail(y))

\* get_close_matches(word, possibilities, n=1, cutoff): the possibility with
\* the greatest (ratio, text), the ratio being that of SequenceMatcher with
\* seq1 the possibility and seq2 the word; <<>> or <<x>>
get_close_matches(word, possibilities) ==
    LET good == {x \in Range(possibilities) : AtLeastCutoff(ratio(x, word))}
    IN  IF good = {} THEN <<>>
        ELSE << CHOOSE x \in good :
                   \A y \in good :
                       \/ y = x
                       \/ RatioLess(ratio(y, word), ratio(x, word))
                       \/ (ratio(y, word)[1] * ratio(x, word)[2]
                              = ratio(x, word)[1] * ratio(y, word)[2]
                           /\ StrLess(y, x)) >>

\* cols_norm[key]: the last column whose normalised label is key
LastWithNorm(columns, key) ==
    columns[Max({i \in 1..Len(columns) : norm_col(columns[i]) = key})]

\* The first candidate, from position k on, with a close match decides
RECURSIVE fuzzy_from(_, _, _)
fuzzy_from(columns, candidates, k) ==
    IF k > Len(candidates) THEN None
    ELSE LET norm_map == [i \in 1..Len(columns) |-> norm_col(columns[i])]
             ms == get_close_matches(norm_col(candidates[k]), norm_map)
         IN  IF ms # <<>> THEN Some(LastWithNorm(columns, ms[1]))
             ELSE fuzzy_from(columns, candidates, k + 1)

fuzzy_match(columns, candidates) == fuzzy_from(columns, candidates, 1)

\* show_map_ui: the suggestion (the selectbox's default) for every field
show_map_ui(columns, required_fields) ==
    [k \in 1..Len(required_fields) |->
        [field |-> required_fields[k][1],
         candidates |-> required_fields[k][2],
         auto |-> fuzzy_match(columns, required_fields[k][2])]]

----------------------------------------------------------------------------
(* parse_date_series and materialize *)

\* pd.to_datetime(s, errors='coerce').dt.date on one cell: an ISO date is
\* that date, a blank is NaT.  The tables below hold no other text the
\* general parser reads as a date; such text is NaT here.
parse_date(c) ==
    IF c.t = "str" /\ ~IsNone(strptime(c.v))
    THEN LET d == Val(strptime(c.v)) IN Date(d[1], d[2], d[3])
    ELSE NaN

DateFields == {"date", "filing_date"}
NumericFields == {"taxable_value", "igst", "cgst", "sgst", "total_tax_paid"}

\* rename_map.get(c, c): a later item of the mapping overwrites an earlier one
RenameTo(map, columns, c) ==
    LET hits == {k \in 1..Len(map) :
                    map[k][2] # "" /\ map[k][2] \in Range(columns) /\ map[k][2] = c}
    IN  IF hits = {} THEN c ELSE map[Max(hits)][1]

\* df.rename(columns=rename_map).columns
renamed_columns(columns, map) ==
    [i \in 1..Len(columns) |-> RenameTo(map, columns, columns[i])]

Count(columns, name) == Cardinality({i \in 1..Len(columns) : columns[i] = name})

\* df[name] of a repeated label is a DataFrame: pd.to_datetime(DataFrame)
\* raises, and DataFrame.apply hands to_num each column of a table with rows
\* as a Series, where "if pd.isna(s)" raises
CoercionRaises(columns, rows) ==
    \/ \E n \in DateFields : Count(columns, n) > 1
    \/ \E n \in NumericFields : Count(columns, n) > 1 /\ Len(rows) > 0

coerce(name, c) ==
    IF name \in DateFields THEN parse_date(c)
    ELSE IF name \in NumericFields THEN to_num(c)
    ELSE c

NotMaterialized == [status |-> "none", df |-> EmptyFrame]

materialize(raw_opt, map) ==
    IF IsNone(raw_opt) THEN NotMaterialized
    ELSE LET raw == Val(raw_opt)
             columns == renamed_columns(raw.columns, map)
         IN  IF CoercionRaises(columns, raw.rows)
             THEN [status |-> "ValueError", df |-> EmptyFrame]
             ELSE [status |-> "ok",
                   df |-> [columns |-> columns,
                           rows |-> [r \in 1..Len(raw.rows) |->
                                       [i \in 1..Len(columns) |->
                                           coerce(columns[i], raw.rows[r][i])]]]]

----------------------------------------------------------------------------
(* Run Audit, 1) MISMATCH *)

MismatchTolerance == 100      \* the 1.0 of "diff > 1.0", in hundredths

\* abs(a - b) on floats
AbsDiff(a, b) ==
    IF a.t = "num" /\ b.t = "num"
    THEN Num(IF a.v >= b.v THEN a.v - b.v ELSE b.v - a.v)
    ELSE IF a.t = "inf" /\ b.t = "inf" /\ a.v = b.v THEN NaN
    ELSE Inf(1)

\* (merged['diff'] > 1.0) on one row: False for a null diff
ExceedsTolerance(diff) ==
    \/ diff.t = "inf"
    \/ diff.t = "num" /\ diff.v > MismatchTolerance

\* A slip: ">=" for ">" in the tolerance test
mismatch_flag_ge(gstr1_taxable, diff) ==
    isna(gstr1_taxable) \/ (~isna(diff) /\ (diff.t = "inf" \/ diff.v >= MismatchTolerance))

\* merged['gstr1_taxable'].isnull() | (merged['diff'] > 1.0)
mismatch_flag(gstr1_taxable, diff) ==
    isna(gstr1_taxable) \/ (~isna(diff) /\ ExceedsTolerance(diff))

\* gstr1_df[['invoice_no','taxable_value']] raises KeyError for a missing label
SelectRaises(gstr1) ==
    ~(HasCol(gstr1, "invoice_no") /\ HasCol(gstr1, "taxable_value"))

\* The right rows whose key equals the key of left row i, in right order
\* (merge matches a null key with a null key)
KeyMatches(sales, gstr1, i) ==
    SelectSeq(Indices(gstr1),
              LAMBDA j : Cell(gstr1, j, "invoice_no") = Cell(sales, i, "invoice_no"))

\* sales_df.merge(..., on='invoice_no', how='left'): pairs <<left, right>>,
\* right = 0 where no right row matched
RECURSIVE LeftJoin(_, _, _)
LeftJoin(sales, gstr1, i) ==
    IF i > Len(sales.rows) THEN <<>>
    ELSE LET ms == KeyMatches(sales, gstr1, i)
             here == IF ms = <<>> THEN << <<i, 0>> >>
                     ELSE [k \in 1..Len(ms) |-> <<i, ms[k]>>]
         IN  here \o LeftJoin(sales, gstr1, i + 1)

\* without invoice_no: merged = sales_df.copy(); merged['gstr1_taxable'] = pd.NA
merged_pairs(sales, gstr1) ==
    IF HasCol(sales, "invoice_no")
    THEN LeftJoin(sales, gstr1, 1)
    ELSE [i \in 1..Len(sales.rows) |-> <<i, 0>>]

\* One row of merged after the "numeric ensure" lines
merged_row(sales, gstr1, pair) ==
    LET tv == IF HasCol(sales, "taxable_value")
              THEN to_num(Cell(sales, pair[1], "taxable_value"))
              ELSE to_num(Num(0))
        raw == IF pair[2] = 0 THEN NaN ELSE Cell(gstr1, pair[2], "taxable_value")
        g == IF isna(raw) THEN NaN ELSE to_num(raw)
        diff == IF isna(g) THEN NaN ELSE AbsDiff(tv, g)
    IN  [left |-> pair[1], right |-> pair[2],
         invoice_no |-> RowGet(sales, pair[1], "invoice_no"),
         taxable_value |-> tv, gstr1_taxable |-> g, diff |-> diff,
         mismatch_flag |-> mismatch_flag(g, diff)]

merged(sales, gstr1) ==
    LET ps == merged_pairs(sales, gstr1)
    IN  [k \in 1..Len(ps) |-> merged_row(sales, gstr1, ps[k])]

\* merged[merged['mismatch_flag']]
mismatches(sales, gstr1) ==
    SelectSeq(merged(sales, gstr1), LAMBDA r : r.mismatch_flag)

----------------------------------------------------------------------------
(* Run Audit, 2) DUPLICATES *)

Key(df, i, subset) == [k \in 1..Len(subset) |-> Cell(df, i, subset[k])]

\* A slip: keep='first' (the default) for keep=False
duplicated_keep_first(df, subset) ==
    SelectSeq(Indices(df),
              LAMBDA i : \E k \in 1..(i - 1) : Key(df, k, subset) = Key(df, i, subset))

\* df[df.duplicated(subset=subset, keep=False)]: the index labels kept
duplicated(df, subset) ==
    SelectSeq(Indices(df),
              LAMBDA i : \E k \in 1..Len(df.rows) :
                            k # i /\ Key(df, k, subset) = Key(df, i, subset))

dup_by_no(sales) ==
    IF HasCol(sales, "invoice_no") THEN duplicated(sales, <<"invoice_no">>) ELSE <<>>

\* [c for c in ['taxable_value','date','customer_gstin'] if c in sales_df.columns]
combo_cols(sales) ==
    SelectSeq(<<"taxable_value", "date", "customer_gstin">>,
              LAMBDA c : HasCol(sales, c))

dup_by_combo(sales) ==
    IF combo_cols(sales) # <<>> THEN duplicated(sales, combo_cols(sales)) ELSE <<>>

----------------------------------------------------------------------------
(* Run Audit, 3) DELAYED FILINGS *)

\* due: strptime(m + "-20") for a str m of 7 characters or more, else None;
\* an exception skips the row
due_date(m) ==
    IF m.t = "str" /\ Len(m.v) >= 7
    THEN LET d == strptime(m.v \o <<"-", "2", "0">>)
         IN  IF IsNone(d) THEN [raised |-> TRUE, due |-> None]
             ELSE [raised |-> FALSE, due |-> d]
    ELSE [raised |-> FALSE, due |-> None]

estimated_fee(days_late, fee) == days_late * fee

\* The body of the loop for row r: <<>> or one late row
late_row(gstr3b, r, fee) ==
    LET m == RowGet(gstr3b, r, "month")
        d == due_date(m)
        f == RowGet(gstr3b, r, "filing_date")
        filed == IF isna(f) THEN None ELSE Some(f.v)
    IN  IF d.raised \/ IsNone(d.due) \/ IsNone(filed) THEN <<>>
        ELSE LET days_late == toordinal(Val(filed)) - toordinal(Val(d.due))
             IN  IF days_late > 0
                 THEN << [row |-> r, month |-> m, due_date |-> Val(d.due),
                          filing_date |-> Val(filed), days_late |-> days_late,
                          estimated_fee |-> estimated_fee(days_late, fee)] >>
                 ELSE <<>>

RECURSIVE late_from(_, _, _)
late_from(gstr3b, r, fee) ==
    IF r > Len(gstr3b.rows) THEN <<>>
    ELSE late_row(gstr3b, r, fee) \o late_from(gstr3b, r + 1, fee)

late_rows(gstr3b_opt, fee) ==
    IF ~IsNone(gstr3b_opt) /\ ~IsEmptyFrame(Val(gstr3b_opt))
    THEN late_from(Val(gstr3b_opt), 1, fee)
    ELSE <<>>

----------------------------------------------------------------------------
(* Run Audit, summary and the arguments of make_pdf_buffer *)

RECURSIVE SumFees(_)
SumFees(rows) ==
    IF rows = <<>> THEN 0 ELSE Head(rows).estimated_fee + SumFees(Tail(rows))

\* DataFrame.drop_duplicates(): the first of each run of equal rows is kept
RECURSIVE drop_duplicates(_)
drop_duplicates(rows) ==
    IF rows = <<>> THEN <<>>
    ELSE LET init == SubSeq(rows, 1, Len(rows) - 1)
             last == rows[Len(rows)]
         IN  IF last \in Range(init) THEN drop_duplicates(init)
             ELSE Append(drop_duplicates(init), last)

\* len(dup_by_no) + len(dup_by_combo)
duplicate_total(by_no, by_combo) == Len(by_no) + Len(by_combo)

\* pd.concat([dup_by_no, dup_by_combo]).drop_duplicates(), or pd.DataFrame()
duplicates_df(sales, by_no, by_combo) ==
    IF by_no # <<>> \/ by_combo # <<>>
    THEN drop_duplicates([k \in 1..Len(by_no) |-> sales.rows[by_no[k]]]
                         \o [k \in 1..Len(by_combo) |-> sales.rows[by_combo[k]]])
    ELSE <<>>

NoAudit ==
    [status |-> "none", mismatches |-> <<>>, dup_by_no |-> <<>>,
     dup_by_combo |-> <<>>, late_rows |-> <<>>,
     total_mismatches |-> 0, total_duplicates |-> 0, total_potential_penalty |-> 0,
     pdf_duplicates |-> 0, pdf_duplicates_df |-> <<>>]

\* The handler of the "Run Audit" button
audit_result(sales_opt, gstr1_opt, gstr3b_opt, fee) ==
    IF IsNone(sales_opt) THEN [NoAudit EXCEPT !.status = "no_sales"]
    ELSE LET sales == Val(sales_opt)
             gstr1 == IF IsNone(gstr1_opt) THEN EmptyFrame ELSE Val(gstr1_opt)
         IN  IF HasCol(sales, "invoice_no") /\ SelectRaises(gstr1)
             THEN [NoAudit EXCEPT !.status = "KeyError"]
             ELSE LET mm == mismatches(sales, gstr1)
                      bn == dup_by_no(sales)
                      bc == dup_by_combo(sales)
                      lr == late_rows(gstr3b_opt, fee)
                  IN  [status |-> "ok", mismatches |-> mm, dup_by_no |-> bn,
                       dup_by_combo |-> bc, late_rows |-> lr,
                       total_mismatches |-> Len(mm),
                       total_duplicates |-> duplicate_total(bn, bc),
                       total_potential_penalty |-> SumFees(lr),
                       pdf_duplicates |-> duplicate_total(bn, bc),
                       pdf_duplicates_df |-> duplicates_df(sales, bn, bc)]


----------------------------------------------------------------------------
(* The script as a state machine: every widget interaction reruns it, and  *)
(* only a rerun with the button pressed audits.  An initial state is the   *)
(* script with a choice of uploaded files, as tables materialize can       *)
(* return (numeric fields numbers, date fields dates or NaT, labels        *)
(* distinct).                                                              *)

MaxSalesRows == 2
MaxFilingRows == 2
MaxDupRows == 3
MaxLogRows == 2

SeqUpTo(S, n) == UNION {[1..k -> S] : k \in 0..n}

\* The rows whose i-th cell is drawn from cells[i]
RowsOver(cells) ==
    {r \in [1..Len(cells) -> UNION Range(cells)] : \A i \in 1..Len(cells) : r[i] \in cells[i]}

Frames(columns, cells, n) ==
    {[columns |-> columns, rows |-> rs] : rs \in SeqUpTo(RowsOver(cells), n)}

A == Str(<<"A">>)
B == Str(<<"B">>)

\* Sales and GSTR-1 tables for the mismatch check
SalesKeyCells == {NaN, A, B}
FilingKeyCells == {NaN, A}
SalesAmounts == {Num(10000), Num(10101)}
FilingAmounts == {Num(10000), Num(10100), Num(10101)}

SalesForMismatch(n) ==
    Frames(<<"invoice_no", "taxable_value">>, <<SalesKeyCells, SalesAmounts>>, n)
    \cup Frames(<<"taxable_value">>, <<SalesAmounts>>, 1)
    \cup Frames(<<"invoice_no">>, <<SalesKeyCells>>, 1)

Gstr1ForMismatch(n) ==
    Frames(<<"invoice_no", "taxable_value">>, <<FilingKeyCells, FilingAmounts>>, n)
    \cup Frames(<<"invoice_no">>, <<FilingKeyCells>>, 1)
    \cup Frames(<<"taxable_value">>, <<FilingAmounts>>, 1)

\* Sales tables for the duplicate checks
DupDates == {Date(2024, 1, 5), NaN}
DupCustomers == {Str(<<"X">>), Str(<<"Y">>)}
DupAmounts == {Num(100), Num(200)}

SalesForDuplicates(n) ==
    Frames(<<"invoice_no", "date", "customer_gstin", "taxable_value">>,
           <<{A, B}, {Date(2024, 1, 5)}, DupCustomers, DupAmounts>>, n)
    \cup Frames(<<"invoice_no", "taxable_value">>, <<{NaN, A, B}, DupAmounts>>, n)
    \cup Frames(<<"date", "customer_gstin", "taxable_value">>,
                <<DupDates, DupCustomers, DupAmounts>>, n)
    \cup Frames(<<"invoice_no">>, <<{NaN, A, B}>>, n)

\* A GSTR-1 upload with both columns mapped and no rows
Gstr1NoRows == [columns |-> <<"invoice_no", "taxable_value">>, rows |-> <<>>]

\* GSTR-3B tables for the delayed-filings check
MonthCells ==
    {NaN,
     Str(<<"2", "0", "2", "4", "-", "0", "1">>),
     Str(<<"2", "0", "2", "3", "-", "1", "2">>),
     Str(<<"2", "0", "2", "4", "-", "1", "3">>),
     Str(<<"2", "0", "2", "4", "-", "1">>),
     Str(<<"2", "0", "2", "4", "-", "0", "1", "-", "1", "5">>)}

FilingDates ==
    {NaN, Date(2024, 1, 20), Date(2024, 1, 21), Date(2024, 2, 20),
     Date(2024, 2, 25), Date(2024, 6, 1)}

Gstr3bForLate(n) ==
    Frames(<<"month", "filing_date">>, <<MonthCells, FilingDates>>, n)
    \cup Frames(<<"month">>, <<MonthCells>>, 1)
    \cup Frames(<<"filing_date">>, <<FilingDates>>, 1)

SalesForLate ==
    Frames(<<"invoice_no", "taxable_value">>, <<{A}, {Num(10000)}>>, 1)

FeeChoices == {10, 50, 60}

DefaultFee == 50

\* The state of the script once the three uploaders hold a choice of files
\* (None: nothing uploaded); no audit has run and nothing else is in use
Uploaded(sales, gstr1, gstr3b) ==
    /\ sales_df \in sales
    /\ gstr1_df \in gstr1
    /\ gstr3b_df \in gstr3b
    /\ late_fee_per_day = DefaultFee
    /\ audit = NoAudit
    /\ df_raw = None
    /\ mapping = <<>>
    /\ materialized = NotMaterialized
    /\ cols = <<>>
    /\ auto = <<>>

Optional(S) == {None} \cup {Some(x) : x \in S}

\* A rerun caused by the fee widget: the results of the last audit are gone
SetFee(f) ==
    /\ f # late_fee_per_day
    /\ late_fee_per_day' = f
    /\ audit' = NoAudit
    /\ UNCHANGED <<sales_df, gstr1_df, gstr3b_df, matVars, uiVars>>

\* A rerun with the "Run Audit" button pressed
RunAudit ==
    /\ audit' = audit_result(sales_df, gstr1_df, gstr3b_df, late_fee_per_day)
    /\ UNCHANGED <<sales_df, gstr1_df, gstr3b_df, late_fee_per_day, matVars, uiVars>>

InitMismatch ==
    Uploaded(Optional(SalesForMismatch(MaxSalesRows)), Optional(Gstr1ForMismatch(MaxFilingRows)), {None})

NextMismatch == RunAudit

SpecMismatch == InitMismatch /\ [][NextMismatch]_vars

InitDuplicates ==
    Uploaded(Optional(SalesForDuplicates(MaxDupRows)), {Some(Gstr1NoRows)}, {None})

NextDuplicates == RunAudit

SpecDuplicates == InitDuplicates /\ [][NextDuplicates]_vars

InitLate ==
    Uploaded(Optional(SalesForLate), {Some(Gstr1NoRows)}, Optional(Gstr3bForLate(MaxLogRows)))

NextLate ==
    \/ \E f \in FeeChoices : SetFee(f)
    \/ RunAudit

SpecLate == InitLate /\ [][NextLate]_vars

----------------------------------------------------------------------------
(* The state machine of materialize *)

MaxRawRows == 1
MaxRawCols == 2

\* Labels of a raw file: two that are canonical names already, two that are not
RawLabels == {"invoice_no", "taxable_value", "Bill No", "Amount"}

\* Cells as read with dtype=str: text, or NaN for a blank
RawCells ==
    {NaN,
     Str(<<"1", ",", "2", "3", "4", ".", "5", "0">>),
     Str(<<"(", "5", ")">>),
     Str(<<"a", "b", "c">>),
     Str(<<"i", "n", "f">>),
     Str(<<"2", "0", "2", "4", "-", "0", "1", "-", "1", "5">>)}

RawColumnLists(n) ==
    {c \in SeqUpTo(RawLabels, n) :
        Len(c) > 0 /\ \A i, j \in 1..Len(c) : i # j => c[i] # c[j]}

RawTables(ncols, nrows) ==
    UNION {{[columns |-> c, rows |-> rs] :
               rs \in {x \in SeqUpTo([1..Len(c) -> RawCells], nrows) : Len(x) > 0}} :
           c \in RawColumnLists(ncols)}

\* The fields of gstr1_map, in the order show_map_ui fills them
MappedFields == <<"invoice_no", "date", "taxable_value">>

\* Every choice of the selectboxes: "" or a column of the table
Mappings(raw) ==
    {[k \in 1..Len(MappedFields) |-> <<MappedFields[k], pick[k]>>] :
        pick \in [1..Len(MappedFields) -> {""} \cup Range(raw.columns)]}

InitMaterialize ==
    /\ df_raw \in {Some(t) : t \in RawTables(MaxRawCols, MaxRawRows)}
    /\ mapping \in Mappings(Val(df_raw))
    /\ materialized = NotMaterialized
    /\ sales_df = None
    /\ gstr1_df = None
    /\ gstr3b_df = None
    /\ late_fee_per_day = DefaultFee
    /\ audit = NoAudit
    /\ cols = <<>>
    /\ auto = <<>>

Materialize ==
    /\ materialized' = materialize(df_raw, mapping)
    /\ UNCHANGED <<df_raw, mapping, auditVars, uiVars>>

NextMaterialize == Materialize

SpecMaterialize == InitMaterialize /\ [][NextMaterialize]_vars

----------------------------------------------------------------------------
(* The state machine of the mapping UI: lines 100 to 118 *)

SalesFields ==
    <<<<"invoice_no",
        <<<<"i", "n", "v", "o", "i", "c", "e">>,
          <<"i", "n", "v", "o", "i", "c", "e", "_", "n", "o">>,
          <<"b", "i", "l", "l", "n", "o">>,
          <<"b", "i", "l", "l", "_", "n", "u", "m", "b", "e", "r">>,
          <<"i", "n", "v", "n", "o">>,
          <<"i", "n", "v", "_", "n", "o">>>>>>,
      <<"date",
        <<<<"d", "a", "t", "e">>,
          <<"i", "n", "v", "o", "i", "c", "e", "_", "d", "a", "t", "e">>,
          <<"b", "i", "l", "l", "_", "d", "a", "t", "e">>,
          <<"c", "r", "e", "a", "t", "e", "d", "_", "d", "a", "t", "e">>>>>>,
      <<"customer_gstin",
        <<<<"g", "s", "t", "i", "n">>,
          <<"c", "u", "s", "t", "o", "m", "e", "r", "_", "g", "s", "t", "i", "n">>,
          <<"b", "u", "y", "e", "r", "_", "g", "s", "t", "i", "n">>,
          <<"g", "s", "t", "_", "n", "o">>>>>>,
      <<"taxable_value",
        <<<<"t", "a", "x", "a", "b", "l", "e", "_", "v", "a", "l", "u", "e">>,
          <<"t", "a", "x", "a", "b", "l", "e">>,
          <<"v", "a", "l", "u", "e">>,
          <<"a", "m", "o", "u", "n", "t">>,
          <<"n", "e", "t", "_", "a", "m", "o", "u", "n", "t">>>>>>,
      <<"igst",
        <<<<"i", "g", "s", "t">>>>>>,
      <<"cgst",
        <<<<"c", "g", "s", "t">>>>>>,
      <<"sgst",
        <<<<"s", "g", "s", "t">>>>>>>>

Gstr1Fields ==
    <<<<"invoice_no",
        <<<<"i", "n", "v", "o", "i", "c", "e">>,
          <<"i", "n", "v", "o", "i", "c", "e", "_", "n", "o">>,
          <<"i", "n", "v", "n", "o">>,
          <<"i", "n", "v", "_", "n", "o">>>>>>,
      <<"date",
        <<<<"d", "a", "t", "e">>,
          <<"i", "n", "v", "o", "i", "c", "e", "_", "d", "a", "t", "e">>>>>>,
      <<"taxable_value",
        <<<<"t", "a", "x", "a", "b", "l", "e", "_", "v", "a", "l", "u", "e">>,
          <<"t", "a", "x", "a", "b", "l", "e">>,
          <<"v", "a", "l", "u", "e">>>>>>>>

Gstr3bFields ==
    <<<<"month",
        <<<<"m", "o", "n", "t", "h">>,
          <<"p", "e", "r", "i", "o", "d">>,
          <<"t", "a", "x", "_", "p", "e", "r", "i", "o", "d">>>>>>,
      <<"filing_date",
        <<<<"f", "i", "l", "i", "n", "g", "_", "d", "a", "t", "e">>,
          <<"d", "a", "t", "e", "_", "o", "f", "_", "f", "i", "l", "i", "n", "g">>,
          <<"f", "i", "l", "e", "d", "_", "o", "n">>,
          <<"f", "i", "l", "i", "n", "g", "d", "a", "t", "e">>>>>>,
      <<"total_tax_paid",
        <<<<"t", "o", "t", "a", "l", "_", "t", "a", "x", "_", "p", "a", "i", "d">>,
          <<"t", "a", "x", "_", "p", "a", "i", "d">>,
          <<"t", "o", "t", "a", "l", "_", "t", "a", "x">>>>>>>>

\* Column labels of uploaded files
LabelPool ==
    {<<"B", "i", "l", "l", " ", "N", "o", ".">>,
     <<"I", "n", "v", "o", "i", "c", "e", " ", "D", "a", "t", "e">>,
     <<"I", "n", "v">>,
     <<"G", "S", "T", "I", "N">>,
     <<"A", "m", "o", "u", "n", "t">>,
     <<"N", "e", "t", " ", "A", "m", "t">>,
     <<"F", "i", "l", "e", "d", " ", "O", "n">>,
     <<"P", "e", "r", "i", "o", "d">>,
     <<"b", "i", "l", "l", "_", "n", "o">>}

MaxCols == 3

\* list(df.columns): distinct labels
ColumnLists(n) ==
    {c \in SeqUpTo(LabelPool, n) : \A i, j \in 1..Len(c) : i # j => c[i] # c[j]}

InitMapUi ==
    /\ cols \in ColumnLists(MaxCols)
    /\ auto = <<>>
    /\ sales_df = None
    /\ gstr1_df = None
    /\ gstr3b_df = None
    /\ late_fee_per_day = DefaultFee
    /\ audit = NoAudit
    /\ df_raw = None
    /\ mapping = <<>>
    /\ materialized = NotMaterialized

\* show_map_ui(sales_df_raw, "Sales / Invoices", {...}) and its two siblings
MapSales ==
    /\ auto' = show_map_ui(cols, SalesFields)
    /\ UNCHANGED <<cols, auditVars, matVars>>

MapGstr1 ==
    /\ auto' = show_map_ui(cols, Gstr1Fields)
    /\ UNCHANGED <<cols, auditVars, matVars>>

MapGstr3b ==
    /\ auto' = show_map_ui(cols, Gstr3bFields)
    /\ UNCHANGED <<cols, auditVars, matVars>>

NextMapUi == MapSales \/ MapGstr1 \/ MapGstr3b

SpecMapUi == InitMapUi /\ [][NextMapUi]_vars


----------------------------------------------------------------------------
(* Properties of the audit *)

Ran == audit.status = "ok"
Sales == Val(sales_df)
Gstr1 == Val(gstr1_df)
Gstr3b == Val(gstr3b_df)

\* The mismatch Findings of Sales row i against Filing row j (0: none)
FindingsOf(i, j) ==
    {k \in 1..Len(audit.mismatches) :
        audit.mismatches[k].left = i /\ audit.mismatches[k].right = j}

SameInvoice(i, j) == Cell(Sales, i, "invoice_no") = Cell(Gstr1, j, "invoice_no")

Distance(i, j) ==
    LET a == Cell(Sales, i, "taxable_value").v
        b == Cell(Gstr1, j, "taxable_value").v
    IN  IF a >= b THEN a - b ELSE b - a

SharesInvoice(i) ==
    \E k \in 1..Len(Sales.rows) :
        k # i /\ Cell(Sales, k, "invoice_no") = Cell(Sales, i, "invoice_no")

Occurrences(seq, x) == Cardinality({k \in 1..Len(seq) : seq[k] = x})

\* C4: with invoice_no in the Sales schema, a record is in the
\* duplicate-invoice-number group (once) exactly when another record carries
\* the same invoice_no: all N of N >= 2 sharing records, the first included.
C4_AllSharersFlagged ==
    (Ran /\ HasCol(Sales, "invoice_no")) =>
        \A i \in 1..Len(Sales.rows) :
            Occurrences(audit.dup_by_no, i) = (IF SharesInvoice(i) THEN 1 ELSE 0)

\* Three records, the first two sharing an invoice number and both flagged,
\* the third alone and not flagged
C4_Witness ==
    /\ Ran /\ HasCol(Sales, "invoice_no") /\ Len(Sales.rows) = 3
    /\ Cell(Sales, 1, "invoice_no") = Cell(Sales, 2, "invoice_no")
    /\ Cell(Sales, 3, "invoice_no") # Cell(Sales, 1, "invoice_no")
    /\ audit.dup_by_no = <<1, 2>>

CompositeKey == <<"taxable_value", "date", "customer_gstin">>

AgreesOnAllThree(i) ==
    \E k \in 1..Len(Sales.rows) :
        k # i /\ \A c \in Range(CompositeKey) : Cell(Sales, k, c) = Cell(Sales, i, c)

\* C5: the composite-key detector flags exactly the records that agree with
\* another record on taxable_value, date and customer when all three fields
\* are in the Sales schema, and flags nothing when one of them is absent.
C5_CompositeNeedsAllThree ==
    Ran =>
        IF \A c \in Range(CompositeKey) : HasCol(Sales, c)
        THEN \A i \in 1..Len(Sales.rows) :
                 (i \in Range(audit.dup_by_combo)) <=> AgreesOnAllThree(i)
        ELSE audit.dup_by_combo = <<>>

\* C6: an audit of a mapped Sales table never fails, whatever GSTR-1 and
\* GSTR-3B are (absent, empty, or without a mapping for a field a check
\* uses), and an absent or empty GSTR-3B yields no late-filing Finding.
C6_AuditNeverRaises ==
    /\ audit.status \in {"none", "no_sales", "ok"}
    /\ (Ran /\ (IsNone(gstr3b_df) \/ IsEmptyFrame(Val(gstr3b_df))))
           => audit.late_rows = <<>>

Flagged == Range(audit.dup_by_no) \cup Range(audit.dup_by_combo)

\* C10: the duplicate total of the summary, on screen and in the report's
\* paragraph, is the number of distinct flagged records (a record flagged by
\* both detectors counts once), equals the number of records of the
\* report's duplicate section, and is 0 exactly when that section is omitted.
C10_DuplicateTotalIsUnion ==
    Ran =>
        /\ audit.total_duplicates = Cardinality(Flagged)
        /\ audit.pdf_duplicates = Cardinality(Flagged)
        /\ audit.pdf_duplicates = Len(audit.pdf_duplicates_df)
        /\ (audit.pdf_duplicates = 0) <=> (audit.pdf_duplicates_df = <<>>)

\* The period of a "YYYY-MM" month cell, <<year, month>>, or <<>>
Period(m) ==
    IF /\ m.t = "str" /\ Len(m.v) = 7 /\ m.v[5] = "-"
       /\ AllDigits(SubSeq(m.v, 1, 4)) /\ AllDigits(SubSeq(m.v, 6, 7))
       /\ DecVal(SubSeq(m.v, 6, 7)) \in 1..12
    THEN << <<DecVal(SubSeq(m.v, 1, 4)), DecVal(SubSeq(m.v, 6, 7))>> >>
    ELSE <<>>

\* The 20th of the month after period p
DueAfter(p) == IF p[2] = 12 THEN <<p[1] + 1, 1, 20>> ELSE <<p[1], p[2] + 1, 20>>

LateFindingsOf(r) == {k \in 1..Len(audit.late_rows) : audit.late_rows[k].row = r}

\* C1: for a Filing-log record with a parsable period and filing date the
\* due date is the 20th of the month after the period; a late_filing Finding
\* is emitted iff the filing date is strictly after it, with days_late the
\* number of days between the two ("2024-01" filed 2024-02-20: no Finding;
\* filed 2024-02-25: days_late = 5).
C1_DueTwentiethOfNextMonth ==
    (Ran /\ ~IsNone(gstr3b_df)) =>
        \A r \in 1..Len(Gstr3b.rows) :
            LET p == Period(RowGet(Gstr3b, r, "month"))
                f == RowGet(Gstr3b, r, "filing_date")
            IN  (p # <<>> /\ ~isna(f)) =>
                    LET late == toordinal(f.v) - toordinal(DueAfter(p[1]))
                    IN  /\ (LateFindingsOf(r) # {}) <=> (late > 0)
                        /\ \A k \in LateFindingsOf(r) :
                               /\ audit.late_rows[k].days_late = late
                               /\ audit.late_rows[k].due_date = DueAfter(p[1])

Clamp(x, lo, hi) == IF x < lo THEN lo ELSE IF x > hi THEN hi ELSE x

\* C2: the estimated fee of every late_filing Finding is days_late *
\* fee_per_day clamped into [100, 5000].
C2_FeeClamped ==
    Ran =>
        \A k \in 1..Len(audit.late_rows) :
            audit.late_rows[k].estimated_fee
                = Clamp(audit.late_rows[k].days_late * late_fee_per_day, 100, 5000)


----------------------------------------------------------------------------
(* Properties of materialize *)

Raw == Val(df_raw)
Out == materialized.df

\* C7: materialize never raises, emits one record per input row, and every
\* numeric canonical field of its output is a finite number (blank input is
\* 0.0), also when a raw column already carries the canonical name another
\* column is mapped to.
C7_MaterializeTotalAndFinite ==
    materialized.status # "none" =>
        /\ materialized.status = "ok"
        /\ Len(Out.rows) = Len(Raw.rows)
        /\ \A r \in 1..Len(Out.rows) : \A i \in 1..Len(Out.columns) :
               Out.columns[i] \in NumericFields =>
                   /\ Out.rows[r][i].t = "num"
                   /\ isna(Raw.rows[r][i]) => Out.rows[r][i] = Num(0)

\* The canonical field a source column ends under: the last field, in
\* mapping order, that selected it
LastFieldOf(c) ==
    mapping[Max({k \in 1..Len(mapping) : mapping[k][2] = c})][1]

MappedColumns == {mapping[k][2] : k \in 1..Len(mapping)} \ {""}

\* C8: the fields of the materialized records are exactly the canonical
\* fields of the source columns the mapping selected; every other source
\* column is dropped; a column selected for two fields carries the later one.
C8_OnlyMappedFields ==
    materialized.status = "ok" =>
        /\ Range(Out.columns) = {LastFieldOf(c) : c \in MappedColumns}
        /\ Len(Out.columns) = Cardinality(MappedColumns)
        /\ \A i \in 1..Len(Raw.columns) :
               Raw.columns[i] \in MappedColumns =>
                   \E j \in 1..Len(Out.columns) :
                       Out.columns[j] = LastFieldOf(Raw.columns[i])

----------------------------------------------------------------------------
(* Properties of the mapping suggestions *)

Similarity(c, alias) == ratio(norm_col(c), norm_col(alias))

ExactColumns(candidates) ==
    {c \in Range(cols) : \E a \in Range(candidates) : norm_col(c) = norm_col(a)}

CloseColumns(candidates) ==
    {c \in Range(cols) : \E a \in Range(candidates) : AtLeastCutoff(Similarity(c, a))}

\* c scores at least as well as every column does against every alias
BestScoring(c, candidates) ==
    \E a \in Range(candidates) :
        \A d \in Range(cols) : \A b \in Range(candidates) :
            ~RatioLess(Similarity(c, a), Similarity(d, b))

\* C9: for each canonical field, a column whose normalised label equals a
\* normalised alias is the suggestion whenever there is one, even if another
\* column is close to an alias listed earlier; failing that the
\* best-scoring column with similarity >= 0.6; failing that, none.
C9_ExactBeforeFuzzy ==
    \A k \in 1..Len(auto) :
        LET e == auto[k] IN
        IF ExactColumns(e.candidates) # {}
        THEN e.auto # None /\ Val(e.auto) \in ExactColumns(e.candidates)
        ELSE IF CloseColumns(e.candidates) # {}
        THEN /\ e.auto # None
             /\ Val(e.auto) \in CloseColumns(e.candidates)
             /\ BestScoring(Val(e.auto), e.candidates)
        ELSE e.auto = None

====
